---------------------------- MODULE Spec2Model ----------------------------
(***************************************************************************)
(* A model of bombhopper-rs (src/src/lib.rs): the Ammo::finite_seq         *)
(* parser, the Entity constructors, the serde encoding of Entity and       *)
(* Level, and the Level push/clear operations.                             *)
(*                                                                         *)
(* Conventions.                                                            *)
(*  - A &str / String is a sequence of one-character strings where the     *)
(*    code walks its characters (finite_seq), and an opaque TLA+ string    *)
(*    where the code only stores it (names, texts, locale codes).          *)
(*  - An f32 is an integer counting tenths: 5 is 0.5, 10 is 1.0.           *)
(*  - A Rust enum value is a record whose field "variant" names the        *)
(*    variant; a struct is a record with the struct's field names.         *)
(*  - A HashMap is the sequence of its (key, value) entries in the map's   *)
(*    iteration order, with pairwise distinct keys.                        *)
(*  - A JSON value is a record [t, v]: t is the JSON type, v the payload;  *)
(*    an object's payload is the sequence of its <<key, value>> members    *)
(*    in emission order.                                                   *)
(***************************************************************************)
EXTENDS Integers, Sequences, FiniteSets, TLC

VARIABLES
    s,        \* finite_seq: the argument of the call
    res,      \* finite_seq: the returned Result, or None before the call
    ent,      \* the Entity value under construction / serialization
    json,     \* the output of serde_json::to_string(&ent), or None
    level,    \* the Level value
    history,  \* the Level operations performed since Level::new, oldest first
    out,      \* the output of serde_json::to_string(&level), or None
    call      \* the constructor call that produced ent: its name and arguments

vars == <<s, res, ent, json, level, history, out, call>>

ammoVars == <<s, res>>
entityVars == <<ent, json, call>>
levelVars == <<level, history, out>>

--------------------------------------------------------------------------
(* Bounds of the model *)

MaxLen == 4      \* longest finite_seq argument
MaxMag == 2      \* longest magazine of a hand-built Ammo::Finite
MaxVerts == 2    \* longest vertex list
MaxOps == 4      \* Level operations after Level::new

None == [variant |-> "None"]

\* no serialization output yet
NoJson == [t |-> "none"]

\* every sequence over S of length at most n
SeqsUpTo(S, n) == UNION {[1..k -> S] : k \in 0..n}

Range(f) == {f[i] : i \in DOMAIN f}

--------------------------------------------------------------------------
(* JSON values as serde_json emits them *)

JStr(x) == [t |-> "string", v |-> x]
JInt(n) == [t |-> "int", v |-> n]
JFloat(f) == [t |-> "float", v |-> f]
JBool(b) == [t |-> "bool", v |-> b]
JArr(xs) == [t |-> "array", v |-> xs]
JObj(members) == [t |-> "object", v |-> members]

\* the keys of a JSON object, in emission order
Keys(o) == [i \in 1..Len(o.v) |-> o.v[i][1]]

\* the value under key k of a JSON object that has exactly one such key
Get(o, k) == o.v[CHOOSE i \in 1..Len(o.v) : o.v[i][1] = k][2]

--------------------------------------------------------------------------
(* Point, lines 9-19 *)

F32 == {0, 5}

Point_new(x, y) == [x |-> x, y |-> y]

Points == {Point_new(x, y) : x \in F32, y \in F32}

SerializePoint(p) == JObj(<< <<"x", JFloat(p.x)>>, <<"y", JFloat(p.y)>> >>)

--------------------------------------------------------------------------
(* AmmoType and Ammo, lines 54-87 *)

AmmoType == {"Empty", "Bomb", "Grenade"}

\* #[serde(rename_all = "camelCase")], Bomb renamed "bullet"
SerializeAmmoType(a) ==
    CASE a = "Empty" -> JStr("empty")
      [] a = "Bomb" -> JStr("bullet")
      [] a = "Grenade" -> JStr("grenade")

Infinite(a) == [variant |-> "Infinite", val |-> a]
Finite(mag) == [variant |-> "Finite", val |-> mag]

Ammos == {Infinite(a) : a \in AmmoType} \cup {Finite(m) : m \in SeqsUpTo(AmmoType, MaxMag)}

\* The characters finite_seq is tried on: the three ammo letters in both
\* cases and characters that are none of them.
Chars == {"b", "g", "e", "B", "G", "E", "x", "X"}

Strings == SeqsUpTo(Chars, MaxLen)

\* char::to_ascii_lowercase: 'A'..'Z' to 'a'..'z', every other char unchanged
to_ascii_lowercase(c) ==
    CASE c = "B" -> "b"
      [] c = "G" -> "g"
      [] c = "E" -> "e"
      [] c = "X" -> "x"
      [] OTHER -> c

Ok(x) == [variant |-> "Ok", val |-> x]
Err(e) == [variant |-> "Err", err |-> e]

\* finite_seq's loop ending at the first character that is no ammo letter
\* and keeping the rounds read so far, where finite_seq returns the error
RECURSIVE finite_seq_loop_partial(_, _, _)
finite_seq_loop_partial(str, i, mag) ==
    IF i = 0 THEN Ok(Finite(mag))
    ELSE LET c == to_ascii_lowercase(str[i])
         IN  CASE c = "b" -> finite_seq_loop_partial(str, i - 1, Append(mag, "Bomb"))
               [] c = "g" -> finite_seq_loop_partial(str, i - 1, Append(mag, "Grenade"))
               [] c = "e" -> finite_seq_loop_partial(str, i - 1, Append(mag, "Empty"))
               [] OTHER -> Ok(Finite(mag))

\* The loop of finite_seq over s.chars().rev(): i is the 1-based index of the
\* next character the reversed iterator yields (0: exhausted), mag the vector
\* built so far.
RECURSIVE finite_seq_loop(_, _, _)
finite_seq_loop(str, i, mag) ==
    IF i = 0 THEN Ok(Finite(mag))
    ELSE LET c == to_ascii_lowercase(str[i])
         IN  CASE c = "b" -> finite_seq_loop(str, i - 1, Append(mag, "Bomb"))
               [] c = "g" -> finite_seq_loop(str, i - 1, Append(mag, "Grenade"))
               [] c = "e" -> finite_seq_loop(str, i - 1, Append(mag, "Empty"))
               [] OTHER -> Err("Ammo Doesn't exist")

\* finite_seq walking s.chars() front to back, where finite_seq walks it
\* reversed
finite_seq_unreversed(str) ==
    LET r == finite_seq_loop(str, Len(str), <<>>)
    IN  IF r.variant = "Ok"
        THEN Ok(Finite([i \in 1..Len(r.val.val) |->
                            r.val.val[Len(r.val.val) + 1 - i]]))
        ELSE r

finite_seq(str) == finite_seq_loop(str, Len(str), <<>>)

\* #[derive(Serialize)] on Ammo: an externally tagged newtype variant is the
\* single-member object {<variant name>: <payload>}
SerializeAmmo(a) ==
    CASE a.variant = "Infinite" ->
            JObj(<< <<"infiniteAmmo", SerializeAmmoType(a.val)>> >>)
      [] a.variant = "Finite" ->
            JObj(<< <<"magazine",
                      JArr([i \in 1..Len(a.val) |-> SerializeAmmoType(a.val[i])])>> >>)

--------------------------------------------------------------------------
(* Shape and TextAlign, lines 89-103 *)

Polygon(vertices) == [variant |-> "Polygon", vertices |-> vertices]
Circle(x, y, radius) == [variant |-> "Circle", x |-> x, y |-> y, radius |-> radius]

Shapes ==
    {Polygon(vs) : vs \in SeqsUpTo(Points, MaxVerts)}
        \cup {Circle(x, y, r) : x \in F32, y \in F32, r \in F32}

SerializePoints(vs) == JArr([i \in 1..Len(vs) |-> SerializePoint(vs[i])])

\* #[serde(untagged)]: a struct variant is the object of its fields alone
SerializeShape(sh) ==
    CASE sh.variant = "Polygon" ->
            JObj(<< <<"vertices", SerializePoints(sh.vertices)>> >>)
      [] sh.variant = "Circle" ->
            JObj(<< <<"x", JFloat(sh.x)>>, <<"y", JFloat(sh.y)>>,
                    <<"radius", JFloat(sh.radius)>> >>)

TextAlign == {"Left", "Center", "Right", "Justify"}

\* #[serde(rename_all = "camelCase")] on unit variants
SerializeTextAlign(a) ==
    CASE a = "Left" -> JStr("left")
      [] a = "Center" -> JStr("center")
      [] a = "Right" -> JStr("right")
      [] a = "Justify" -> JStr("justify")

--------------------------------------------------------------------------
(* Entity, lines 105-173 *)

Materials == {"Normal", "Ice", "Breakable", "Deadly", "Bouncy"}

Variants == {"Player", "Door", "Text", "Paint"} \cup Materials

Player(is_static, angle, x, y, ammo) ==
    [variant |-> "Player", is_static |-> is_static, angle |-> angle,
     x |-> x, y |-> y, ammo |-> ammo]

Door(is_static, angle, x, y, right_facing) ==
    [variant |-> "Door", is_static |-> is_static, angle |-> angle,
     x |-> x, y |-> y, right_facing |-> right_facing]

Text(angle, x, y, text, anchor, align, fill_color, opacity) ==
    [variant |-> "Text", angle |-> angle, x |-> x, y |-> y, text |-> text,
     anchor |-> anchor, align |-> align, fill_color |-> fill_color,
     opacity |-> opacity]

Paint(fill_color, opacity, vertices) ==
    [variant |-> "Paint", fill_color |-> fill_color, opacity |-> opacity,
     vertices |-> vertices]

\* one variant per name given to define_entities!
Material(material, is_static, shape) ==
    [variant |-> material, is_static |-> is_static, shape |-> shape]

White == 16777215

\* HashMap::from([(k, v)]): the map with the one entry
HashMap_from1(k, v) == << <<k, v>> >>

\* new_text with the coordinates of pos exchanged
new_text_swapped(pos, text) ==
    Text(0, pos.y, pos.x, HashMap_from1("en", text), Point_new(5, 5),
         "Left", White, 10)

new_text(pos, text) ==
    Text(0, pos.x, pos.y, HashMap_from1("en", text), Point_new(5, 5),
         "Left", White, 10)

\* The values the fields of hand-built entities are drawn from
Angles == {0, 90}
Colors == {0, White}
Locales == {"en", "fr"}
Texts == {"hi", ""}

\* every HashMap<String, String> over Locales and Texts, in every iteration order
HashMaps ==
    {m \in SeqsUpTo(Locales \X Texts, Cardinality(Locales)) :
        \A i, j \in DOMAIN m : m[i][1] = m[j][1] => i = j}

Players ==
    {Player(st, an, x, y, am) :
        st \in BOOLEAN, an \in Angles, x \in F32, y \in F32, am \in Ammos}

Doors ==
    {Door(st, an, x, y, rf) :
        st \in BOOLEAN, an \in Angles, x \in F32, y \in F32, rf \in BOOLEAN}

TextEntities ==
    {Text(an, p.x, p.y, m, anchor, al, fc, op) :
        an \in Angles, p \in Points, m \in HashMaps, anchor \in Points,
        al \in TextAlign, fc \in Colors, op \in F32}

Paints ==
    {Paint(fc, op, vs) :
        fc \in Colors, op \in F32, vs \in SeqsUpTo(Points, MaxVerts)}

MaterialEntities ==
    {Material(mt, st, sh) : mt \in Materials, st \in BOOLEAN, sh \in Shapes}

Entities == Players \cup Doors \cup TextEntities \cup Paints \cup MaterialEntities

\* EntityTag without Door's rename = "endpoint"
EntityTagNoRename(variant) ==
    CASE variant = "Player" -> "player"
      [] variant = "Door" -> "door"
      [] variant = "Text" -> "text"
      [] variant = "Paint" -> "paint"
      [] variant = "Normal" -> "normal"
      [] variant = "Ice" -> "ice"
      [] variant = "Breakable" -> "breakable"
      [] variant = "Deadly" -> "deadly"
      [] variant = "Bouncy" -> "bouncy"

\* #[serde(rename_all = "camelCase")] on the enum's variants lowers the first
\* letter of the variant's name; Door carries rename = "endpoint"
EntityTag(variant) ==
    CASE variant = "Player" -> "player"
      [] variant = "Door" -> "endpoint"
      [] variant = "Text" -> "text"
      [] variant = "Paint" -> "paint"
      [] variant = "Normal" -> "normal"
      [] variant = "Ice" -> "ice"
      [] variant = "Breakable" -> "breakable"
      [] variant = "Deadly" -> "deadly"
      [] variant = "Bouncy" -> "bouncy"

\* #[serde(rename_all = "camelCase")] on a variant's fields: snake_case to
\* camelCase; the field text carries rename = "copy"
FieldKey(field) ==
    CASE field = "is_static" -> "isStatic"
      [] field = "right_facing" -> "rightFacing"
      [] field = "fill_color" -> "fillColor"
      [] field = "text" -> "copy"
      [] OTHER -> field

\* #[serde(flatten)]: the members of the field's own serialization, merged
\* into the enclosing object in place of the field
Flatten(j) == j.v

\* a HashMap<String, String> is the object of its entries in iteration order
SerializeHashMap(m) == JObj([i \in 1..Len(m) |-> <<m[i][1], JStr(m[i][2])>>])

\* SerializePlayerParams without #[serde(flatten)] on ammo
SerializePlayerParamsNested(e) ==
    JObj(<< <<FieldKey("is_static"), JBool(e.is_static)>>,
            <<FieldKey("angle"), JInt(e.angle)>>,
            <<FieldKey("x"), JFloat(e.x)>>,
            <<FieldKey("y"), JFloat(e.y)>>,
            <<FieldKey("ammo"), SerializeAmmo(e.ammo)>> >>)

SerializePlayerParams(e) ==
    JObj(<< <<FieldKey("is_static"), JBool(e.is_static)>>,
            <<FieldKey("angle"), JInt(e.angle)>>,
            <<FieldKey("x"), JFloat(e.x)>>,
            <<FieldKey("y"), JFloat(e.y)>> >>
         \o Flatten(SerializeAmmo(e.ammo)))

SerializeDoorParams(e) ==
    JObj(<< <<FieldKey("is_static"), JBool(e.is_static)>>,
            <<FieldKey("angle"), JInt(e.angle)>>,
            <<FieldKey("x"), JFloat(e.x)>>,
            <<FieldKey("y"), JFloat(e.y)>>,
            <<FieldKey("right_facing"), JBool(e.right_facing)>> >>)

SerializeTextParams(e) ==
    JObj(<< <<FieldKey("angle"), JInt(e.angle)>>,
            <<FieldKey("x"), JFloat(e.x)>>,
            <<FieldKey("y"), JFloat(e.y)>>,
            <<FieldKey("text"), SerializeHashMap(e.text)>>,
            <<FieldKey("anchor"), SerializePoint(e.anchor)>>,
            <<FieldKey("align"), SerializeTextAlign(e.align)>>,
            <<FieldKey("fill_color"), JInt(e.fill_color)>>,
            <<FieldKey("opacity"), JFloat(e.opacity)>> >>)

SerializePaintParams(e) ==
    JObj(<< <<FieldKey("fill_color"), JInt(e.fill_color)>>,
            <<FieldKey("opacity"), JFloat(e.opacity)>>,
            <<FieldKey("vertices"), SerializePoints(e.vertices)>> >>)

\* SerializeMaterialParams without #[serde(flatten)] on shape
SerializeMaterialParamsNested(e) ==
    JObj(<< <<FieldKey("is_static"), JBool(e.is_static)>>,
            <<FieldKey("shape"), SerializeShape(e.shape)>> >>)

SerializeMaterialParams(e) ==
    JObj(<< <<FieldKey("is_static"), JBool(e.is_static)>> >>
         \o Flatten(SerializeShape(e.shape)))

SerializeParams(e) ==
    CASE e.variant = "Player" -> SerializePlayerParams(e)
      [] e.variant = "Door" -> SerializeDoorParams(e)
      [] e.variant = "Text" -> SerializeTextParams(e)
      [] e.variant = "Paint" -> SerializePaintParams(e)
      [] e.variant \in Materials -> SerializeMaterialParams(e)

\* #[serde(tag = "type", content = "params")]: adjacently tagged
SerializeEntity(e) ==
    JObj(<< <<"type", JStr(EntityTag(e.variant))>>,
            <<"params", SerializeParams(e)>> >>)

--------------------------------------------------------------------------
(* Level, lines 175-201 *)

\* Level::new stamping format version 1
Level_new_v1(name, timings) ==
    [name |-> name, timings |-> timings, entities |-> <<>>, format_version |-> 1]

Level_new(name, timings) ==
    [name |-> name, timings |-> timings, entities |-> <<>>, format_version |-> 0]

\* push inserting at the front of the vector
LevelPushFront(l, entity) == [l EXCEPT !.entities = <<entity>> \o @]

\* push writing over the last entity of a non-empty vector
LevelPushOverwrite(l, entity) ==
    [l EXCEPT !.entities =
        IF @ = <<>> THEN <<entity>> ELSE [@ EXCEPT ![Len(@)] = entity]]

LevelPush(l, entity) == [l EXCEPT !.entities = Append(@, entity)]

\* clear removing the last entity only (Vec::pop)
LevelClearPop(l) ==
    [l EXCEPT !.entities = IF @ = <<>> THEN @ ELSE SubSeq(@, 1, Len(@) - 1)]

LevelClear(l) == [l EXCEPT !.entities = <<>>]

\* #[serde(rename_all = "camelCase")] on the struct's fields
SerializeLevel(l) ==
    JObj(<< <<"name", JStr(l.name)>>,
            <<"timings", JArr(<<JInt(l.timings[1]), JInt(l.timings[2])>>)>>,
            <<"entities",
              JArr([i \in 1..Len(l.entities) |-> SerializeEntity(l.entities[i])])>>,
            <<"formatVersion", JInt(l.format_version)>> >>)

Names == {"My level", ""}
Timings == {<<0, 0>>, <<3, -1>>}

\* The entities pushed onto a Level: those of tests::default_level, cut to
\* the model's vertex bound, and one of each remaining kind.
PushEntities ==
    { new_text(Point_new(0, 5), "hi"),
      Material("Normal", TRUE, Polygon(<<Point_new(0, 0), Point_new(5, 0)>>)),
      Material("Ice", FALSE, Circle(0, 5, 5)),
      Door(TRUE, 0, 5, 5, TRUE),
      Player(FALSE, 0, 0, 5, finite_seq(<<"b", "e", "g">>).val),
      Paint(White, 5, <<Point_new(5, 5)>>) }

--------------------------------------------------------------------------
(* The caller of Ammo::finite_seq, as in tests::ammo: parse a string, build *)
(* a Player around the magazine, serialize it.                              *)

InitAmmo ==
    /\ s \in Strings
    /\ res = None
    /\ ent = None
    /\ json = NoJson
    /\ call = [fn |-> "none"]
    /\ level = Level_new("", <<0, 0>>)
    /\ history = <<>>
    /\ out = NoJson

FiniteSeqCall ==
    /\ res.variant = "None"
    /\ res' = finite_seq(s)
    /\ UNCHANGED <<s, entityVars, levelVars>>

\* Player { .., ammo: Ammo::finite_seq(s).unwrap() }
PlayerWithAmmo(is_static) ==
    /\ res.variant = "Ok"
    /\ ent.variant = "None"
    /\ ent' = Player(is_static, 0, 0, 0, res.val)
    /\ call' = [fn |-> "Player"]
    /\ UNCHANGED <<ammoVars, json, levelVars>>

\* serde_json::to_string(&ent)
Serialize ==
    /\ ent.variant # "None"
    /\ json.t = "none"
    /\ json' = SerializeEntity(ent)
    /\ UNCHANGED <<ammoVars, ent, call, levelVars>>

NextAmmo ==
    \/ FiniteSeqCall
    \/ \E is_static \in BOOLEAN : PlayerWithAmmo(is_static)
    \/ Serialize

SpecAmmo == InitAmmo /\ [][NextAmmo]_vars

--------------------------------------------------------------------------
(* The caller that builds one Entity, by a struct literal or by             *)
(* Entity::new_text, and serializes it.                                     *)

InitEntity ==
    /\ s = <<>>
    /\ res = None
    /\ ent = None
    /\ json = NoJson
    /\ call = [fn |-> "none"]
    /\ level = Level_new("", <<0, 0>>)
    /\ history = <<>>
    /\ out = NoJson

\* Entity::Variant { .. } written out by the caller
Literal ==
    /\ ent.variant = "None"
    /\ \E e \in Entities : ent' = e
    /\ call' = [fn |-> "literal"]
    /\ UNCHANGED <<ammoVars, json, levelVars>>

NewText(pos, text) ==
    /\ ent.variant = "None"
    /\ ent' = new_text(pos, text)
    /\ call' = [fn |-> "new_text", pos |-> pos, text |-> text]
    /\ UNCHANGED <<ammoVars, json, levelVars>>

NextEntity ==
    \/ Literal
    \/ \E pos \in Points, text \in Texts : NewText(pos, text)
    \/ Serialize

SpecEntity == InitEntity /\ [][NextEntity]_vars

--------------------------------------------------------------------------
(* The owner of a Level: Level::new, then push, clear and serialization in  *)
(* any order.                                                               *)

Init ==
    /\ s = <<>>
    /\ res = None
    /\ ent = None
    /\ json = NoJson
    /\ call = [fn |-> "none"]
    /\ \E name \in Names, timings \in Timings : level = Level_new(name, timings)
    /\ history = <<>>
    /\ out = NoJson

Push(entity) ==
    /\ Len(history) < MaxOps
    /\ level' = LevelPush(level, entity)
    /\ history' = Append(history, [op |-> "push", arg |-> entity])
    /\ UNCHANGED <<ammoVars, entityVars, out>>

Clear ==
    /\ Len(history) < MaxOps
    /\ level' = LevelClear(level)
    /\ history' = Append(history, [op |-> "clear", arg |-> None])
    /\ UNCHANGED <<ammoVars, entityVars, out>>

\* serde_json::to_string(&level)
SerializeLevelCall ==
    /\ Len(history) < MaxOps
    /\ out' = SerializeLevel(level)
    /\ history' = Append(history, [op |-> "serialize", arg |-> None])
    /\ UNCHANGED <<ammoVars, entityVars, level>>

Next ==
    \/ \E entity \in PushEntities : Push(entity)
    \/ Clear
    \/ SerializeLevelCall

Spec == Init /\ [][Next]_vars

--------------------------------------------------------------------------
(* Properties of Ammo::finite_seq, checked under SpecAmmo *)

AmmoChars == {"b", "g", "e", "B", "G", "E"}

\* the ammo type a letter stands for, either case
AmmoOfChar(c) ==
    CASE c \in {"b", "B"} -> "Bomb"
      [] c \in {"g", "G"} -> "Grenade"
      [] c \in {"e", "E"} -> "Empty"

\* the JSON spelling of an ammo type
AmmoString(a) ==
    CASE a = "Bomb" -> "bullet"
      [] a = "Grenade" -> "grenade"
      [] a = "Empty" -> "empty"

Returned == res.variant # "None"
Serialized == json.t # "none"

\* C1: for every string over b, g, e in either case, the empty one included,
\* finite_seq returns Ok(Finite(m)) where m is as long as the string and m's
\* i-th element (from 0) is the ammo type of the character at len-1-i: the
\* input mapped and reversed. The serialized magazine is the same list in
\* JSON spelling; "bbeg" gives ["grenade","empty","bullet","bullet"].
C1_FiniteSeqMapsAndReverses ==
    (Returned /\ \A i \in DOMAIN s : s[i] \in AmmoChars) =>
        /\ res.variant = "Ok"
        /\ res.val.variant = "Finite"
        /\ Len(res.val.val) = Len(s)
        /\ \A i \in 1..Len(s) : res.val.val[i] = AmmoOfChar(s[Len(s) + 1 - i])
        /\ Serialized =>
              /\ Get(Get(json, "params"), "magazine") =
                    JArr([i \in 1..Len(s) |->
                            JStr(AmmoString(AmmoOfChar(s[Len(s) + 1 - i])))])
              /\ s = <<"b", "b", "e", "g">> =>
                    Get(Get(json, "params"), "magazine") =
                        JArr(<<JStr("grenade"), JStr("empty"),
                               JStr("bullet"), JStr("bullet")>>)

\* the call of tests::ammo, parsed, wrapped in a Player and serialized
C1_Witness == s = <<"b", "b", "e", "g">> /\ Returned /\ Serialized

\* C2: finite_seq fails whenever the string holds a character that is none
\* of b, g, e in either case, wherever it sits; the result is the error
\* alone: it carries no magazine, and no Ammo value reaches a Player.
C2_InvalidCharFailsWhole ==
    (Returned /\ \E i \in DOMAIN s : s[i] \notin AmmoChars) =>
        /\ res.variant = "Err"
        /\ DOMAIN res = {"variant", "err"}
        /\ ent.variant = "None"
        /\ ~Serialized

\* the bad character is first in the string, so the reversed walk meets it
\* last, after two valid rounds were pushed
C2_Witness == s = <<"x", "b", "G">> /\ Returned /\ res.variant = "Err"

--------------------------------------------------------------------------
(* Properties of the Entity encoding, checked under SpecEntity *)

Params == Get(json, "params")

\* C6: a Player's params object has exactly five keys in the order isStatic,
\* angle, x, y and then one ammo key: infiniteAmmo with one ammo-type string
\* for Ammo::Infinite, magazine with an array of ammo-type strings for
\* Ammo::Finite; never a nested "ammo" key, never both ammo keys.
C6_PlayerParamsFlattenAmmo ==
    (ent.variant = "Player" /\ Serialized) =>
        LET ks == Keys(Params)
            val == Params.v[5][2]
        IN  /\ Len(ks) = 5
            /\ SubSeq(ks, 1, 4) = <<"isStatic", "angle", "x", "y">>
            /\ "ammo" \notin Range(ks)
            /\ ~({"infiniteAmmo", "magazine"} \subseteq Range(ks))
            /\ ent.ammo.variant = "Infinite" =>
                  /\ ks[5] = "infiniteAmmo"
                  /\ val = JStr(AmmoString(ent.ammo.val))
            /\ ent.ammo.variant = "Finite" =>
                  /\ ks[5] = "magazine"
                  /\ val.t = "array"
                  /\ Len(val.v) = Len(ent.ammo.val)
                  /\ \A i \in 1..Len(val.v) :
                        val.v[i] = JStr(AmmoString(ent.ammo.val[i]))

\* the first case of tests::ammo
C6_Witness ==
    /\ Serialized
    /\ ent.variant = "Player"
    /\ ent.ammo.variant = "Infinite"
    /\ ent.ammo.val = "Bomb"

\* the type tag each variant is to carry
ExpectedTag(variant) ==
    CASE variant = "Door" -> "endpoint"
      [] variant = "Player" -> "player"
      [] variant = "Text" -> "text"
      [] variant = "Paint" -> "paint"
      [] variant = "Normal" -> "normal"
      [] variant = "Ice" -> "ice"
      [] variant = "Breakable" -> "breakable"
      [] variant = "Deadly" -> "deadly"
      [] variant = "Bouncy" -> "bouncy"

\* C7: every Entity serializes as an object with exactly the keys "type" and
\* "params"; the tag depends on the variant alone (Door gives "endpoint",
\* the others their lower-case names), and the nine tags are pairwise
\* distinct.
C7_EntityTypeAndParams ==
    Serialized =>
        /\ Keys(json) = <<"type", "params">>
        /\ Get(json, "type") = JStr(ExpectedTag(ent.variant))
        /\ Params.t = "object"
        /\ \A v1, v2 \in Variants : EntityTag(v1) = EntityTag(v2) => v1 = v2

C7_Witness ==
    /\ Serialized
    /\ ent.variant = "Door"
    /\ ent.right_facing
    /\ ent.angle = 90

\* C8: a material entity's params object is isStatic followed by the shape's
\* own fields, with no "shape" key and no discriminator: a Polygon gives
\* exactly vertices, the {x,y} points in the given order; a Circle gives
\* exactly x, y, radius; which of the keys is present tells the shape.
C8_MaterialParamsFlattenShape ==
    (ent.variant \in Materials /\ Serialized) =>
        LET ks == Keys(Params)
        IN  /\ Params.v[1] = <<"isStatic", JBool(ent.is_static)>>
            /\ "shape" \notin Range(ks)
            /\ "type" \notin Range(ks)
            /\ ent.shape.variant = "Polygon" =>
                  /\ ks = <<"isStatic", "vertices">>
                  /\ Params.v[2][2] =
                        JArr([i \in 1..Len(ent.shape.vertices) |->
                                JObj(<< <<"x", JFloat(ent.shape.vertices[i].x)>>,
                                        <<"y", JFloat(ent.shape.vertices[i].y)>> >>)])
            /\ ent.shape.variant = "Circle" =>
                  /\ ks = <<"isStatic", "x", "y", "radius">>
                  /\ Params.v[2][2] = JFloat(ent.shape.x)
                  /\ Params.v[3][2] = JFloat(ent.shape.y)
                  /\ Params.v[4][2] = JFloat(ent.shape.radius)
            /\ ("vertices" \in Range(ks)) <=> (ent.shape.variant = "Polygon")
            /\ ("radius" \in Range(ks)) <=> (ent.shape.variant = "Circle")

C8_Witness ==
    /\ Serialized
    /\ ent.variant = "Deadly"
    /\ ent.shape.variant = "Polygon"
    /\ Len(ent.shape.vertices) = 2
    /\ ent.shape.vertices[1] # ent.shape.vertices[2]

\* C9: new_text(pos, text) is the Text entity at pos with angle 0, the one
\* locale entry "en" -> text, anchor (0.5, 0.5), align Left, fill_color
\* 16777215 and opacity 1.0; serialized, it is tagged "text" and the locale
\* map is under "copy", not "text".
C9_NewTextDefaults ==
    call.fn = "new_text" =>
        /\ ent = [variant |-> "Text", angle |-> 0,
                  x |-> call.pos.x, y |-> call.pos.y,
                  text |-> << <<"en", call.text>> >>,
                  anchor |-> [x |-> 5, y |-> 5], align |-> "Left",
                  fill_color |-> 16777215, opacity |-> 10]
        /\ Serialized =>
              /\ Get(json, "type") = JStr("text")
              /\ "text" \notin Range(Keys(Params))
              /\ Get(Params, "copy") = JObj(<< <<"en", JStr(call.text)>> >>)
              /\ Get(Params, "x") = JFloat(call.pos.x)
              /\ Get(Params, "y") = JFloat(call.pos.y)
              /\ Get(Params, "angle") = JInt(0)
              /\ Get(Params, "anchor") =
                    JObj(<< <<"x", JFloat(5)>>, <<"y", JFloat(5)>> >>)
              /\ Get(Params, "align") = JStr("left")
              /\ Get(Params, "fillColor") = JInt(16777215)
              /\ Get(Params, "opacity") = JFloat(10)

C9_Witness ==
    /\ call.fn = "new_text"
    /\ call.text = "hi"
    /\ call.pos = [x |-> 5, y |-> 0]
    /\ Serialized

--------------------------------------------------------------------------
(* Properties of Level, checked under Spec *)

\* the index of the last clear in a history, 0 when there is none
LastClear(h) ==
    LET cs == {i \in DOMAIN h : h[i].op = "clear"}
    IN  IF cs = {} THEN 0 ELSE CHOOSE i \in cs : \A j \in cs : j <= i

\* the entities pushed since the most recent clear, oldest first
PushedSinceClear(h) ==
    LET IsPush(r) == r.op = "push"
        pushes == SelectSeq(SubSeq(h, LastClear(h) + 1, Len(h)), IsPush)
    IN  [i \in 1..Len(pushes) |-> pushes[i].arg]

LastOp(h) == IF Len(h) = 0 THEN "new" ELSE h[Len(h)].op

\* C3: after any sequence of push and clear calls the entities list, and
\* the serialized "entities" array, is exactly the entities pushed since the
\* most recent clear (since new when there was none), in push order; right
\* after clear the list is empty and serializes as [].
C3_EntitiesArePushesSinceClear ==
    /\ level.entities = PushedSinceClear(history)
    /\ LastOp(history) = "clear" => level.entities = <<>>
    /\ LastOp(history) = "serialize" =>
          /\ Get(out, "entities") =
                JArr([i \in 1..Len(PushedSinceClear(history)) |->
                        SerializeEntity(PushedSinceClear(history)[i])])
          /\ LastOp(SubSeq(history, 1, Len(history) - 1)) = "clear" =>
                Get(out, "entities") = JArr(<<>>)

C3_Witness ==
    /\ Len(history) = 4
    /\ history[1].op = "push"
    /\ history[2].op = "clear"
    /\ history[3].op = "push"
    /\ history[4].op = "push"
    /\ history[3].arg.variant = "Text"
    /\ history[4].arg.variant = "Player"

IsStep(op) == Len(history') = Len(history) + 1 /\ LastOp(history') = op

\* C4: clear is idempotent and total: clear empties the entities and keeps
\* the other fields, a clear right after a clear changes nothing, a clear of
\* an empty Level changes nothing, and clear is defined in every state.
C4_ClearIdempotent ==
    /\ [](LevelClear(level).entities = <<>>)
    /\ [][IsStep("clear") =>
            /\ level' = [level EXCEPT !.entities = <<>>]
            /\ LastOp(history) = "clear" => level' = level
            /\ level.entities = <<>> => level' = level]_vars

C4_Witness ==
    /\ Len(history) = 3
    /\ history[1].op = "push"
    /\ history[2].op = "clear"
    /\ history[3].op = "clear"

\* C5: format_version is 0 in every state reachable from Level::new by push
\* and clear, every serialized Level carries "formatVersion":0, and
\* Level::new gives an empty entities list whatever the name and timings.
C5_FormatVersionZero ==
    /\ level.format_version = 0
    /\ out.t # "none" => Get(out, "formatVersion") = JInt(0)
    /\ Len(history) = 0 =>
          /\ level.entities = <<>>
          /\ level.name \in Names
          /\ level.timings \in Timings

C5_Witness ==
    /\ LastOp(history) = "serialize"
    /\ Len(level.entities) = 3
    /\ level.name = "My level"

\* C10: push and clear leave name, timings and format_version as they
\* were; push leaves the old entities list as a prefix of the new one,
\* which is one longer and ends with the pushed entity; no step removes
\* one entity or alters one already pushed.
C10_LevelFrame ==
    [][/\ level'.name = level.name
       /\ level'.timings = level.timings
       /\ level'.format_version = level.format_version
       /\ IsStep("push") =>
             /\ Len(level'.entities) = Len(level.entities) + 1
             /\ SubSeq(level'.entities, 1, Len(level.entities)) = level.entities
             /\ level'.entities[Len(level'.entities)] = history'[Len(history')].arg
       /\ \/ level'.entities = <<>>
          \/ /\ Len(level'.entities) >= Len(level.entities)
             /\ SubSeq(level'.entities, 1, Len(level.entities)) = level.entities]_vars

C10_Witness ==
    /\ Len(history) = 3
    /\ history[1].op = "push"
    /\ history[2].op = "push"
    /\ history[3].op = "push"
    /\ level.timings = <<3, -1>>

==========================================================================
